---- MODULE Spec2Model ----
(***************************************************************************)
(* Lexia AI agent starter kit: the in-memory conversation store            *)
(* (memory/conversation_manager.py) and the turn processed by              *)
(* process_message (main.py): credential check, history load, prompt       *)
(* build, provider stream with tool-call accumulation, function dispatch   *)
(* and finalisation.                                                       *)
(*                                                                         *)
(* Texts are sequences of pieces, a piece being a pair <<kind, value>> of  *)
(* strings; Python string concatenation is sequence concatenation.         *)
(***************************************************************************)
EXTENDS Integers, Sequences, FiniteSets, TLC

\* ------------------------------------------------------------------ bounds
MaxHistoryBound == 2    \* the largest max_history a store is constructed with
MaxAppends == 3         \* add_message calls made directly on the store
MaxTurns == 2           \* turns of process_message
MaxChunks == 3          \* chunks delivered by the provider, over all turns
MaxConcurrentChunks == 2  \* chunks delivered to each of the concurrent turns
MaxFormatHistory == 2   \* the longest history handed to the formatter
MainMaxHistory == 10    \* conversation_manager = ConversationManager(max_history=10)

\* --------------------------------------------------------------- constants
None == "None"
Threads == {"t1", "t2"}
TurnThreads == {"t1"}
Roles == {"user", "assistant"}
StoreContents == {<<<<"text", "a">>>>, <<<<"text", "b">>>>}
ToolIndices == {0, 1}
Attachments == {None, "pdf", "pdf_unreadable", "image"}
SystemMessages == {None, "sys"}
ProjectMessages == {None, "proj"}
\* the (system_message, project_system_message) pairs a turn is started with
PromptConfigs == {<<None, None>>, <<"sys", "proj">>}
HandlerOutcomes == {"url", "fail"}

\* Argument text arrives in tokens; the only buffers that are valid JSON are
\* the ones whose concatenation is the text {"prompt":"cat"}.
ConcurrentTurns == {1, 2}
Callers == {1, 2}
FormatterSystemMessages == {None, "", "sys"}
FormatterProjectMessages == {None, "", "proj"}
ValidJson == {<<"{p:cat}">>, <<"{p:", "cat}">>}

VARIABLES
    max_history,          \* ConversationManager.max_history
    conversations,        \* ConversationManager.conversations: thread id -> list of messages
    clock,                \* the wall clock read by _get_timestamp
    appended,             \* per thread: messages passed to add_message since creation / last clear
    history_result,       \* the value returned by the last direct get_history call
    store_calls,          \* number of direct add_message calls made so far
    pc,                   \* position of process_message
    data,                 \* the inbound ChatMessage (thread_id, message)
    attachment,           \* what became of the inbound attachment
    messages,             \* the message list built for the provider
    full_response,        \* main.py local full_response
    usage_info,           \* main.py local usage_info
    function_calls,       \* main.py local function_calls
    generated_image_url,  \* main.py local generated_image_url
    next_call,            \* position of the dispatch loop in function_calls
    received,             \* tool-call fragments delivered to this turn, in arrival order
    usages,               \* usage values delivered to this turn, in arrival order
    trace,                \* calls this turn made on the store and on the output channel, in order
    chunks_seen,          \* chunks delivered so far
    turns,                \* turns started so far
    history_thread,       \* the thread id passed to the last direct get_history call
    cturn,                \* concurrent turns: position and locals of each process_message
    callers,              \* concurrent add_message calls: the line each one has reached
    fmt                   \* the formatter under test: its arguments and what it returned

storeVars == <<max_history, conversations, clock, appended, history_result, store_calls>>
turnVars == <<pc, data, attachment, messages, full_response, usage_info, function_calls,
              generated_image_url, next_call, received, usages, trace, chunks_seen, turns>>
sideVars == <<history_thread, cturn, callers, fmt>>
vars == <<storeVars, turnVars, sideVars>>

\* ------------------------------------------------------- ConversationStore
Message(role, content, ts) == [role |-> role, content |-> content, timestamp |-> ts]

\* mutant: the length check is missing
TrimNone(hist, maxh) == hist

\* if len(...) > self.max_history: pop(0)
Trim(hist, maxh) == IF Len(hist) > maxh THEN Tail(hist) ELSE hist

\* self.conversations[thread_id] on the defaultdict: the list, created empty if absent
Lookup(convs, t) == IF t \in DOMAIN convs THEN convs[t] ELSE <<>>

\* mutant: on overflow the newest message is dropped instead of the oldest
add_message_evict_newest(convs, maxh, t, msg) ==
    [u \in (DOMAIN convs) \cup {t} |->
        IF u = t
        THEN LET grown == Append(Lookup(convs, t), msg)
             IN IF Len(grown) > maxh THEN SubSeq(grown, 1, Len(grown) - 1) ELSE grown
        ELSE convs[u]]

\* mutant: on overflow the oldest message of every thread is dropped
add_message_evict_everywhere(convs, maxh, t, msg) ==
    LET grown == Append(Lookup(convs, t), msg)
    IN [u \in (DOMAIN convs) \cup {t} |->
           IF u = t THEN Trim(grown, maxh)
           ELSE IF Len(grown) > maxh /\ convs[u] # <<>> THEN Tail(convs[u]) ELSE convs[u]]

add_message(convs, maxh, t, msg) ==
    [u \in (DOMAIN convs) \cup {t} |->
        IF u = t THEN Trim(Append(Lookup(convs, t), msg), maxh) ELSE convs[u]]

\* self.conversations.get(thread_id, [])
get_history(convs, t) == IF t \in DOMAIN convs THEN convs[t] ELSE <<>>

\* mutant: self.conversations[thread_id], which makes the defaultdict create the key
get_history_store_inserting(convs, t) == [u \in (DOMAIN convs) \cup {t} |-> Lookup(convs, u)]

\* the store after get_history: dict.get does not insert the default
get_history_store(convs, t) == convs

\* mutant: del self.conversations[thread_id] without the membership test
clear_history_raises_unguarded(convs, t) == t \notin DOMAIN convs

\* line 137: the del is guarded by "if thread_id in self.conversations"
clear_history_raises(convs, t) == FALSE

\* mutant: the list is emptied, the key stays
clear_history_keep_key(convs, t) == [u \in DOMAIN convs |-> IF u = t THEN <<>> ELSE convs[u]]

clear_history(convs, t) == [u \in (DOMAIN convs) \ {t} |-> convs[u]]

get_all_threads(convs) == DOMAIN convs

get_thread_count(convs) == Cardinality(DOMAIN convs)

\* One add_message call: the store, the clock and the record of what was appended.
StoreAdd(t, role, content) ==
    /\ conversations' = add_message(conversations, max_history, t, Message(role, content, clock))
    /\ clock' = clock + 1
    /\ appended' = [appended EXCEPT ![t] = Append(@, Message(role, content, clock))]

AddMessage(t, role, content) ==
    /\ store_calls < MaxAppends
    /\ StoreAdd(t, role, content)
    /\ store_calls' = store_calls + 1
    /\ UNCHANGED <<sideVars, max_history, history_result, turnVars>>

GetHistory(t) ==
    /\ history_result' = get_history(conversations, t)
    /\ conversations' = get_history_store(conversations, t)
    /\ history_thread' = t
    /\ UNCHANGED <<cturn, callers, fmt, max_history, clock, appended, store_calls, turnVars>>

ClearHistory(t) ==
    /\ ~clear_history_raises(conversations, t)
    /\ conversations' = clear_history(conversations, t)
    /\ appended' = [appended EXCEPT ![t] = <<>>]
    /\ UNCHANGED <<sideVars, max_history, clock, history_result, store_calls, turnVars>>

TurnIdle ==
    /\ pc = "Idle"
    /\ data = [thread_id |-> None, message |-> <<>>]
    /\ attachment = None
    /\ messages = <<>>
    /\ full_response = <<>>
    /\ usage_info = None
    /\ function_calls = <<>>
    /\ generated_image_url = None
    /\ next_call = 1
    /\ received = <<>>
    /\ usages = <<>>
    /\ trace = <<>>
    /\ chunks_seen = 0
    /\ turns = 0

\* no concurrent turn has started
CTurnIdle == [pc |-> "Idle", thread_id |-> None, thread_history |-> <<>>, full_response |-> <<>>]

\* no add_message call is in progress
CallerIdle == [pc |-> "Idle", thread_id |-> None]

\* the formatter has not been called
FmtIdle ==
    [stage |-> "idle", system_message |-> None, project_system_message |-> None,
     conversation_history |-> <<>>, current_message |-> <<>>, system_prompt |-> <<>>,
     messages |-> <<>>, history_after |-> <<>>]

SideIdle ==
    /\ history_thread = None
    /\ cturn = [p \in ConcurrentTurns |-> CTurnIdle]
    /\ callers = [a \in Callers |-> CallerIdle]
    /\ fmt = FmtIdle

StoreEmpty ==
    /\ conversations = <<>>
    /\ clock = 1
    /\ appended = [t \in Threads |-> <<>>]
    /\ history_result = <<>>
    /\ store_calls = 0

\* ConversationManager(max_history=n), used directly
InitStore ==
    /\ max_history \in 0..MaxHistoryBound
    /\ StoreEmpty
    /\ TurnIdle
    /\ SideIdle

NextStore ==
    \/ \E t \in Threads, r \in Roles, c \in StoreContents : AddMessage(t, r, c)
    \/ \E t \in Threads : GetHistory(t)
    \/ \E t \in Threads : ClearHistory(t)

SpecStore == InitStore /\ [][NextStore]_vars

\* ---------------------------------------------------------- PromptFormatter
Truthy(s) == s # None /\ s # ""

\* mutant: the project section is appended without testing the argument
format_system_prompt_always_context(system_message, project_system_message) ==
    (IF Truthy(system_message)
     THEN <<<<"text", system_message>>>>
     ELSE <<<<"text", "You are a helpful AI assistant.">>>>)
    \o <<<<"text", "\n\nProject Context: ">>, <<"text", project_system_message>>>>

\* mutant: the stored message itself is passed on, timestamp included
format_messages_keep_timestamp(system_prompt, conversation_history, current_message) ==
    <<[role |-> "system", content |-> system_prompt]>>
    \o conversation_history
    \o <<[role |-> "user", content |-> current_message]>>

format_system_prompt(system_message, project_system_message) ==
    LET base_prompt == IF Truthy(system_message)
                       THEN <<<<"text", system_message>>>>
                       ELSE <<<<"text", "You are a helpful AI assistant.">>>>
    IN IF Truthy(project_system_message)
       THEN base_prompt \o <<<<"text", "\n\nProject Context: ">>, <<"text", project_system_message>>>>
       ELSE base_prompt

\* mutant: the current message is not added when the history already ends with it
format_messages_no_repeat(system_prompt, conversation_history, current_message) ==
    <<[role |-> "system", content |-> system_prompt]>>
    \o [i \in 1..Len(conversation_history) |->
           [role |-> conversation_history[i].role, content |-> conversation_history[i].content]]
    \o (IF conversation_history # <<>>
           /\ conversation_history[Len(conversation_history)].content = current_message
        THEN <<>>
        ELSE <<[role |-> "user", content |-> current_message]>>)

format_messages_for_openai(system_prompt, conversation_history, current_message) ==
    <<[role |-> "system", content |-> system_prompt]>>
    \o [i \in 1..Len(conversation_history) |->
           [role |-> conversation_history[i].role, content |-> conversation_history[i].content]]
    \o <<[role |-> "user", content |-> current_message]>>

\* ------------------------------------------------- attachments (main.py 208-262)
PdfText == <<<<"text", "\n\nPDF Content:\n">>, <<"text", "pdf text">>>>

\* the last entry's content rebuilt as text part + image_url part
ImageParts(content) ==
    [i \in 1..Len(content) |-> <<"part:text", content[i][2]>>] \o <<<<"part:image_url", "file_url">>>>

\* mutant: the PDF text is written to every entry that holds the inbound text
WithAttachmentEveryCopy(msgs, att, message) ==
    IF att = "pdf"
    THEN [i \in 1..Len(msgs) |->
             IF msgs[i].role = "user" /\ msgs[i].content = message
             THEN [msgs[i] EXCEPT !.content = message \o PdfText]
             ELSE msgs[i]]
    ELSE msgs

\* mutant: the user entry is rewritten before extraction has succeeded
WithAttachmentEarlyWrite(msgs, att, message) ==
    IF msgs # <<>> /\ msgs[Len(msgs)].role = "user"
    THEN CASE att = "pdf" -> [msgs EXCEPT ![Len(msgs)].content = message \o PdfText]
           [] att = "pdf_unreadable" ->
                [msgs EXCEPT ![Len(msgs)].content = message \o <<PdfText[1]>>]
           [] att = "image" -> [msgs EXCEPT ![Len(msgs)].content = ImageParts(@)]
           [] OTHER -> msgs
    ELSE msgs

WithAttachment(msgs, att, message) ==
    IF msgs # <<>> /\ msgs[Len(msgs)].role = "user"
    THEN CASE att = "pdf" -> [msgs EXCEPT ![Len(msgs)].content = message \o PdfText]
           [] att = "image" -> [msgs EXCEPT ![Len(msgs)].content = ImageParts(@)]
           [] OTHER -> msgs
    ELSE msgs

\* ------------------------------------------------------ output channel, trace
Event(op, role, text, usage, file_url) ==
    [op |-> op, role |-> role, text |-> text, usage |-> usage, file_url |-> file_url]

AddMessageEvent(role, content) == Event("add_message", role, content, None, None)
\* mutant: the chunk is forwarded without its text
StreamChunkEventNoText(text) == Event("stream_chunk", None, <<>>, None, None)

StreamChunkEvent(text) == Event("stream_chunk", None, text, None, None)
CompleteResponseEvent(text, usage, url) == Event("complete_response", None, text, usage, url)
SendErrorEvent(msg) == Event("send_error", None, <<<<"error", msg>>>>, None, None)
HandlerEvent(result) == Event("generate_image_with_dalle", None, <<>>, None, result)
CreateStreamEvent == Event("chat.completions.create", None, <<>>, None, None)

\* mutant: the failure is logged but not reported
OnExceptionSilent(tr, e) == tr

\* mutant: the failure is reported by the handler and again by its caller
OnExceptionTwice(tr, e) ==
    tr \o <<SendErrorEvent("Error processing message: " \o e),
            SendErrorEvent("Error processing message: " \o e)>>

\* except Exception as e: ... lexia.send_error(data, error_msg)
OnException(tr, e) == Append(tr, SendErrorEvent("Error processing message: " \o e))

\* ------------------------------------------------------- ToolCallAccumulator
Fragment(index, id, has_function, name, arguments) ==
    [index |-> index, id |-> id, has_function |-> has_function, name |-> name,
     arguments |-> arguments]

\* The deltas a stream may carry: one without a function part and one that names
\* a function the agent does not have (both for the first call), and for each
\* index ones that name generate_image (with the call id) and start the argument
\* text, and one that continues the argument text.
Fragments ==
    {Fragment(0, None, FALSE, None, <<>>)}
    \cup {Fragment(i, "call_generate_image", TRUE, "generate_image", <<a>>) :
            i \in ToolIndices, a \in {"{p:", "{p:cat}"}}
    \cup {Fragment(0, "call_other", TRUE, "other", <<"{p:">>)}
    \cup {Fragment(i, None, TRUE, None, <<"cat}">>) : i \in ToolIndices}

NewCall(tc) == [id |-> tc.id, name |-> tc.name, arguments |-> <<>>]

\* for tool_call in delta.tool_calls: one iteration.  raised: the IndexError of
\* function_calls[tool_call.index] when the list is shorter than index + 1.
Accumulate(fcs, tc) ==
    IF ~tc.has_function
    THEN [raised |-> FALSE, calls |-> fcs]
    ELSE LET grown == IF Len(fcs) <= tc.index THEN Append(fcs, NewCall(tc)) ELSE fcs
         IN IF tc.arguments # <<>>
            THEN IF tc.index + 1 <= Len(grown)
                 THEN [raised |-> FALSE,
                       calls |-> [grown EXCEPT ![tc.index + 1].arguments = @ \o tc.arguments]]
                 ELSE [raised |-> TRUE, calls |-> grown]
            ELSE [raised |-> FALSE, calls |-> grown]

RECURSIVE AccumulateAll(_, _)
AccumulateAll(fcs, tcs) ==
    IF tcs = <<>>
    THEN [raised |-> FALSE, calls |-> fcs]
    ELSE LET one == Accumulate(fcs, Head(tcs))
         IN IF one.raised THEN one ELSE AccumulateAll(one.calls, Tail(tcs))

\* ------------------------------------------------- dispatch (main.py 366-404)
JsonLoads(buf) == IF buf \in ValidJson THEN "object" ELSE "error"

ImageResult(url) == <<<<"image_result", url>>>>
FunctionError(cause) == <<<<"function_execution_error", cause>>>>

\* generated_image_url = image_url
RecordUrl(old, url) == url

\* mutant: a failing handler is swallowed without a word in the reply
DispatchOneSwallow(call, outcome) ==
    IF call.name = "generate_image"
    THEN IF JsonLoads(call.arguments) = "error"
         THEN [calls_handler |-> FALSE, text |-> FunctionError("json"), url |-> None]
         ELSE IF outcome = "fail"
              THEN [calls_handler |-> TRUE, text |-> <<>>, url |-> None]
              ELSE [calls_handler |-> TRUE, text |-> ImageResult(outcome), url |-> outcome]
    ELSE [calls_handler |-> FALSE, text |-> <<>>, url |-> None]

\* One iteration of the loop over function_calls.  calls_handler: whether
\* generate_image_with_dalle is reached; outcome is the URL it returns, or "fail"
\* when it raises.
DispatchOne(call, outcome) ==
    IF call.name = "generate_image"
    THEN IF JsonLoads(call.arguments) = "error"
         THEN [calls_handler |-> FALSE, text |-> FunctionError("json"), url |-> None]
         ELSE IF outcome = "fail"
              THEN [calls_handler |-> TRUE, text |-> FunctionError("dalle"), url |-> None]
              ELSE [calls_handler |-> TRUE, text |-> ImageResult(outcome), url |-> outcome]
    ELSE [calls_handler |-> FALSE, text |-> <<>>, url |-> None]

\* mutant: the final response is sent before the reply is stored
FinalizeTraceEmitFirst(tr, text, usage, url) ==
    tr \o <<CompleteResponseEvent(text, usage, url), AddMessageEvent("assistant", text)>>

\* add_message(assistant, full_response), then complete_response
FinalizeTrace(tr, text, usage, url) ==
    tr \o <<AddMessageEvent("assistant", text), CompleteResponseEvent(text, usage, url)>>

\* ------------------------------------------------------------ process_message
Terminal == {"Finalized", "Failed"}

UserText(k) == <<<<"text", "m" \o ToString(k)>>>>

ResetLocals ==
    /\ full_response' = <<>>
    /\ usage_info' = None
    /\ function_calls' = <<>>
    /\ generated_image_url' = None
    /\ next_call' = 1
    /\ received' = <<>>
    /\ usages' = <<>>

\* mutant: the return after send_error is missing
MissingCredentialNoReturn(t) ==
    /\ pc \in Terminal \cup {"Idle"}
    /\ turns < MaxTurns
    /\ turns' = turns + 1
    /\ data' = [thread_id |-> t, message |-> UserText(turns + 1)]
    /\ trace' = <<SendErrorEvent("OpenAI API key not found in variables")>>
    /\ pc' = "PromptBuilt"
    /\ attachment' = None
    /\ messages' = <<>>
    /\ ResetLocals
    /\ UNCHANGED <<sideVars, storeVars, chunks_seen>>

\* mutant: the key is looked up after the inbound message has been stored
MissingCredentialAfterStore(t) ==
    /\ pc \in Terminal \cup {"Idle"}
    /\ turns < MaxTurns
    /\ turns' = turns + 1
    /\ data' = [thread_id |-> t, message |-> UserText(turns + 1)]
    /\ StoreAdd(t, "user", UserText(turns + 1))
    /\ trace' = <<SendErrorEvent("OpenAI API key not found in variables")>>
    /\ pc' = "Failed"
    /\ attachment' = None
    /\ messages' = <<>>
    /\ ResetLocals
    /\ UNCHANGED <<sideVars, max_history, history_result, store_calls, chunks_seen>>

\* lines 190-197: no key in the variables
MissingCredential(t) ==
    /\ pc \in Terminal \cup {"Idle"}
    /\ turns < MaxTurns
    /\ turns' = turns + 1
    /\ data' = [thread_id |-> t, message |-> UserText(turns + 1)]
    /\ trace' = <<SendErrorEvent("OpenAI API key not found in variables")>>
    /\ pc' = "Failed"
    /\ attachment' = None
    /\ messages' = <<>>
    /\ ResetLocals
    /\ UNCHANGED <<sideVars, storeVars, chunks_seen>>

\* mutant: the history is read before the inbound message is stored
HistoryForPromptReadFirst(convs, maxh, t, msg) == get_history(convs, t)

\* lines 201-202: add_message, then get_history on the same thread
HistoryForPrompt(convs, maxh, t, msg) == get_history(add_message(convs, maxh, t, msg), t)

\* lines 199-262: store the user message, read the history, build the prompt
BeginTurn(t, att, sys, proj) ==
    /\ pc \in Terminal \cup {"Idle"}
    /\ turns < MaxTurns
    /\ turns' = turns + 1
    /\ LET message == UserText(turns + 1)
           thread_history == HistoryForPrompt(conversations, max_history, t,
                                              Message("user", message, clock))
           system_prompt == format_system_prompt(sys, proj)
           msgs == format_messages_for_openai(system_prompt, thread_history, message)
       IN /\ data' = [thread_id |-> t, message |-> message]
          /\ StoreAdd(t, "user", message)
          /\ messages' = WithAttachment(msgs, att, message)
          /\ trace' = <<AddMessageEvent("user", message)>>
    /\ attachment' = att
    /\ pc' = "PromptBuilt"
    /\ ResetLocals
    /\ UNCHANGED <<sideVars, max_history, history_result, store_calls, chunks_seen>>

\* lines 306-320: the stream is open; messages is not read again
OpenStream ==
    /\ pc = "PromptBuilt"
    /\ pc' = "Streaming"
    /\ trace' = Append(trace, CreateStreamEvent)
    /\ messages' = <<>>
    /\ attachment' = None
    /\ UNCHANGED <<sideVars, storeVars, data, full_response, usage_info, function_calls,
                   generated_image_url, next_call, received, usages, chunks_seen, turns>>

\* mutant: a failed provider call takes the inbound message back out of the store
OpenStreamFailsRollback ==
    /\ pc = "PromptBuilt"
    /\ pc' = "Failed"
    /\ trace' = OnException(Append(trace, CreateStreamEvent), "upstream")
    /\ messages' = <<>>
    /\ attachment' = None
    /\ conversations' = [conversations EXCEPT ![data.thread_id] = SubSeq(@, 1, Len(@) - 1)]
    /\ UNCHANGED <<sideVars, max_history, clock, appended, history_result, store_calls, data,
                   full_response, usage_info, function_calls, generated_image_url, next_call,
                   received, usages, chunks_seen, turns>>

\* client.chat.completions.create raises
OpenStreamFails ==
    /\ pc = "PromptBuilt"
    /\ pc' = "Failed"
    /\ trace' = OnException(Append(trace, CreateStreamEvent), "upstream")
    /\ messages' = <<>>
    /\ attachment' = None
    /\ UNCHANGED <<sideVars, storeVars, data, full_response, usage_info, function_calls,
                   generated_image_url, next_call, received, usages, chunks_seen, turns>>

ContentText(k) == "c" \o ToString(k)
UsageValue(k) == "u" \o ToString(k)

Chunk(content, tool_calls, usage) ==
    [content |-> content, tool_calls |-> tool_calls, usage |-> usage]

\* the chunks the provider may deliver as chunk number k
Chunks(k) ==
    {Chunk(ContentText(k), <<>>, u) : u \in {None, UsageValue(k)}}
    \cup {Chunk(None, <<f>>, None) : f \in Fragments}

\* mutant: the first usage value is kept
RetainUsageFirst(old, new) == IF old # None THEN old ELSE new

\* lines 354-356: if chunk.usage: usage_info = chunk.usage
RetainUsage(old, new) == IF new # None THEN new ELSE old

\* lines 324-357: one iteration of the loop over the stream
StreamChunk(chunk) ==
    /\ pc = "Streaming"
    /\ chunks_seen < MaxChunks
    /\ chunks_seen' = chunks_seen + 1
    /\ received' = received \o chunk.tool_calls
    /\ usages' = IF chunk.usage # None THEN Append(usages, chunk.usage) ELSE usages
    /\ LET has_content == Truthy(chunk.content)
           text == <<<<"content", chunk.content>>>>
           streamed == IF has_content THEN Append(trace, StreamChunkEvent(text)) ELSE trace
           acc == AccumulateAll(function_calls, chunk.tool_calls)
       IN /\ full_response' = IF has_content THEN full_response \o text ELSE full_response
          /\ function_calls' = acc.calls
          /\ IF acc.raised
             THEN /\ pc' = "Failed"
                  /\ trace' = OnException(streamed, "IndexError")
                  /\ usage_info' = usage_info
             ELSE /\ pc' = pc
                  /\ trace' = streamed
                  /\ usage_info' = RetainUsage(usage_info, chunk.usage)
    /\ UNCHANGED <<sideVars, storeVars, data, attachment, messages, generated_image_url, next_call, turns>>

\* the stream raises between two chunks
StreamFails ==
    /\ pc = "Streaming"
    /\ pc' = "Failed"
    /\ trace' = OnException(trace, "upstream")
    /\ UNCHANGED <<sideVars, storeVars, data, attachment, messages, full_response, usage_info,
                   function_calls, generated_image_url, next_call, received, usages, chunks_seen, turns>>

\* the stream is exhausted
StreamEnd ==
    /\ pc = "Streaming"
    /\ pc' = "FunctionsPending"
    /\ UNCHANGED <<sideVars, storeVars, data, attachment, messages, full_response, usage_info,
                   function_calls, generated_image_url, next_call, received, usages, trace,
                   chunks_seen, turns>>

\* the image service returns a fresh URL on every successful call
ImageUrl(k) == "url" \o ToString(k)

\* mutant: a call is dispatched as soon as it has been accumulated
DispatchCallEager(outcome) ==
    /\ pc \in {"Streaming", "FunctionsPending"}
    /\ next_call <= Len(function_calls)
    /\ LET result == IF outcome = "fail" THEN "fail" ELSE ImageUrl(next_call)
           r == DispatchOne(function_calls[next_call], result)
           called == IF r.calls_handler THEN Append(trace, HandlerEvent(result)) ELSE trace
       IN /\ full_response' = full_response \o r.text
          /\ trace' = IF r.text # <<>> THEN Append(called, StreamChunkEvent(r.text)) ELSE called
          /\ generated_image_url' =
                IF r.url # None THEN RecordUrl(generated_image_url, r.url) ELSE generated_image_url
    /\ next_call' = next_call + 1
    /\ UNCHANGED <<sideVars, storeVars, data, attachment, messages, usage_info, function_calls,
                   received, usages, pc, chunks_seen, turns>>

\* lines 366-404: one iteration of the loop over function_calls
DispatchCall(outcome) ==
    /\ pc = "FunctionsPending"
    /\ next_call <= Len(function_calls)
    /\ LET result == IF outcome = "fail" THEN "fail" ELSE ImageUrl(next_call)
           r == DispatchOne(function_calls[next_call], result)
           called == IF r.calls_handler THEN Append(trace, HandlerEvent(result)) ELSE trace
       IN /\ full_response' = full_response \o r.text
          /\ trace' = IF r.text # <<>> THEN Append(called, StreamChunkEvent(r.text)) ELSE called
          /\ generated_image_url' =
                IF r.url # None THEN RecordUrl(generated_image_url, r.url) ELSE generated_image_url
    /\ next_call' = next_call + 1
    /\ UNCHANGED <<sideVars, storeVars, data, attachment, messages, usage_info, function_calls,
                   received, usages, pc, chunks_seen, turns>>

\* lines 410-423: store the reply, send the complete response
Finalize ==
    /\ pc = "FunctionsPending"
    /\ next_call > Len(function_calls)
    /\ StoreAdd(data.thread_id, "assistant", full_response)
    /\ trace' = FinalizeTrace(trace, full_response, usage_info, generated_image_url)
    /\ pc' = "Finalized"
    /\ UNCHANGED <<sideVars, max_history, history_result, store_calls, data, attachment, messages,
                   full_response, usage_info, function_calls, generated_image_url, next_call,
                   received, usages, chunks_seen, turns>>

\* conversation_manager = ConversationManager(max_history=10), scaled to the bound
Init ==
    /\ max_history = MaxHistoryBound
    /\ StoreEmpty
    /\ TurnIdle
    /\ SideIdle

Next ==
    \/ \E t \in TurnThreads : MissingCredential(t)
    \/ \E t \in TurnThreads, att \in Attachments, cfg \in PromptConfigs :
          BeginTurn(t, att, cfg[1], cfg[2])
    \/ OpenStream
    \/ OpenStreamFails
    \/ \E chunk \in Chunks(chunks_seen + 1) : StreamChunk(chunk)
    \/ StreamFails
    \/ StreamEnd
    \/ \E outcome \in HandlerOutcomes : DispatchCall(outcome)
    \/ Finalize

Spec == Init /\ [][Next]_vars

\* ------------------------------------------------- function_handler.py
\* The handler module's own dispatch, which process_message does not call.
\* A result is the pair (text for the reply, file URL or None).

HandlerFunctionError(cause) ==
    <<<<"function_execution_error", "Error executing generate_image function: " \o cause>>>>

UnknownFunction(name) == <<<<"function_error", "Unknown function: " \o name>>>>

\* _execute_generate_image: json.loads, the image call, the result text
execute_generate_image(call, outcome) ==
    IF JsonLoads(call.arguments) = "error"
    THEN [text |-> HandlerFunctionError("json"), url |-> None]
    ELSE IF outcome = "fail"
         THEN [text |-> HandlerFunctionError("dalle"), url |-> None]
         ELSE [text |-> ImageResult(outcome), url |-> outcome]

execute_function_call(call, outcome) ==
    IF call.name = "generate_image"
    THEN execute_generate_image(call, outcome)
    ELSE [text |-> UnknownFunction(call.name), url |-> None]

RECURSIVE ProcessPrefix(_, _, _)
\* the loop of process_function_calls after k calls: the first URL is kept
ProcessPrefix(calls, outcomes, k) ==
    IF k = 0 THEN [text |-> <<>>, url |-> None]
    ELSE LET prev == ProcessPrefix(calls, outcomes, k - 1)
             r == execute_function_call(calls[k], outcomes[k])
         IN [text |-> prev.text \o r.text,
             url |-> IF r.url # None /\ prev.url = None THEN r.url ELSE prev.url]

process_function_calls(calls, outcomes) == ProcessPrefix(calls, outcomes, Len(calls))

RECURSIVE InlinePrefix(_, _, _)
\* the loop of main.py 366-404 after k calls, as DispatchCall runs it
InlinePrefix(calls, outcomes, k) ==
    IF k = 0 THEN [text |-> <<>>, url |-> None]
    ELSE LET prev == InlinePrefix(calls, outcomes, k - 1)
             r == DispatchOne(calls[k], outcomes[k])
         IN [text |-> prev.text \o r.text,
             url |-> IF r.url # None THEN RecordUrl(prev.url, r.url) ELSE prev.url]

inline_dispatch(calls, outcomes) == InlinePrefix(calls, outcomes, Len(calls))

\* what the image service answers to each call of a list: a fresh URL or a failure
OutcomeLists(calls) ==
    {[i \in 1..Len(calls) |-> IF o[i] = "fail" THEN "fail" ELSE ImageUrl(i)] :
        o \in [1..Len(calls) -> HandlerOutcomes]}

\* ------------------------------------------------- concurrent turns
\* Two process_message calls in flight at once, as when the host overlaps the
\* handling of two requests. Streams here carry content only; the key is present
\* and there is no attachment.

\* mutant: a turn waits until no other turn is in flight
CanBeginExclusive(p) ==
    /\ cturn[p].pc = "Idle"
    /\ \A q \in ConcurrentTurns : cturn[q].pc # "Streaming"

\* lines 139-202: process_message takes no lock before touching the store
CanBegin(p) == cturn[p].pc = "Idle"

\* lines 199-206 and 306: store the user message, read the history, open the stream
CBeginTurn(p, t) ==
    /\ CanBegin(p)
    /\ StoreAdd(t, "user", UserText(p))
    /\ cturn' = [cturn EXCEPT ![p] =
                    [pc |-> "Streaming", thread_id |-> t,
                     thread_history |-> HistoryForPrompt(conversations, max_history, t,
                                                         Message("user", UserText(p), clock)),
                     full_response |-> <<>>]]
    /\ UNCHANGED <<max_history, history_result, store_calls, turnVars, history_thread, callers, fmt>>

ConcurrentContent(p, k) == "c" \o ToString(p) \o "." \o ToString(k)

\* lines 324-330: one content chunk arrives for turn p
CStreamChunk(p) ==
    /\ cturn[p].pc = "Streaming"
    /\ Len(cturn[p].full_response) < MaxConcurrentChunks
    /\ cturn' = [cturn EXCEPT ![p].full_response =
                    Append(@, <<"content", ConcurrentContent(p, Len(@) + 1)>>)]
    /\ UNCHANGED <<storeVars, turnVars, history_thread, callers, fmt>>

\* lines 427-430: the stream of turn p raises
CStreamFails(p) ==
    /\ cturn[p].pc = "Streaming"
    /\ cturn' = [cturn EXCEPT ![p].pc = "Failed"]
    /\ UNCHANGED <<storeVars, turnVars, history_thread, callers, fmt>>

\* lines 410-411: the stream of turn p is exhausted, its reply is stored
CFinalize(p) ==
    /\ cturn[p].pc = "Streaming"
    /\ StoreAdd(cturn[p].thread_id, "assistant", cturn[p].full_response)
    /\ cturn' = [cturn EXCEPT ![p].pc = "Finalized"]
    /\ UNCHANGED <<max_history, history_result, store_calls, turnVars, history_thread, callers, fmt>>

InitConcurrent ==
    /\ max_history = MainMaxHistory
    /\ StoreEmpty
    /\ TurnIdle
    /\ SideIdle

NextConcurrent ==
    \/ \E p \in ConcurrentTurns, t \in Threads : CBeginTurn(p, t)
    \/ \E p \in ConcurrentTurns : CStreamChunk(p)
    \/ \E p \in ConcurrentTurns : CStreamFails(p)
    \/ \E p \in ConcurrentTurns : CFinalize(p)

SpecConcurrent == InitConcurrent /\ [][NextConcurrent]_vars

\* ------------------------------------------------- the formatter on its own
RECURSIVE HistoriesOfLength(_)
\* the histories of n stored messages, stamped 1..n
HistoriesOfLength(n) ==
    IF n = 0 THEN {<<>>}
    ELSE {Append(h, Message(r, c, n)) :
             h \in HistoriesOfLength(n - 1), r \in Roles, c \in StoreContents}

FormatterHistories == UNION {HistoriesOfLength(n) : n \in 0..MaxFormatHistory}

\* mutant: the loop pops the entries it has copied
format_messages_history_consumed(conversation_history) == <<>>

\* lines 128-132: the loop only reads conversation_history
format_messages_history(conversation_history) == conversation_history

InitFormatter ==
    /\ max_history = MainMaxHistory
    /\ StoreEmpty
    /\ TurnIdle
    /\ history_thread = None
    /\ cturn = [p \in ConcurrentTurns |-> CTurnIdle]
    /\ callers = [a \in Callers |-> CallerIdle]
    /\ \E s \in FormatterSystemMessages, j \in FormatterProjectMessages,
          h \in FormatterHistories, m \in StoreContents :
          fmt = [FmtIdle EXCEPT !.stage = "args", !.system_message = s,
                                !.project_system_message = j,
                                !.conversation_history = h, !.current_message = m]

\* main.py:205
FormatSystemPrompt ==
    /\ fmt.stage = "args"
    /\ fmt' = [fmt EXCEPT !.stage = "prompt",
                          !.system_prompt = format_system_prompt(fmt.system_message,
                                                                 fmt.project_system_message)]
    /\ UNCHANGED <<storeVars, turnVars, history_thread, cturn, callers>>

\* main.py:206
FormatMessages ==
    /\ fmt.stage = "prompt"
    /\ fmt' = [fmt EXCEPT !.stage = "done",
                          !.messages = format_messages_for_openai(fmt.system_prompt,
                                                                  fmt.conversation_history,
                                                                  fmt.current_message),
                          !.history_after = format_messages_history(fmt.conversation_history)]
    /\ UNCHANGED <<storeVars, turnVars, history_thread, cturn, callers>>

NextFormatter ==
    \/ FormatSystemPrompt
    \/ FormatMessages

SpecFormatter == InitFormatter /\ [][NextFormatter]_vars

\* ------------------------------------------------- add_message, statement by statement
\* Several callers inside add_message and clear_history at once on one store, as
\* with threads sharing the manager. A caller may be overtaken between two
\* statements of add_message: after line 99, and between the test of line 102
\* and the pop of line 103. Each statement reaches the list through
\* self.conversations[thread_id], which creates the key when it is absent.

\* self.conversations[thread_id]: the store after the lookup
getitem_store(convs, t) == [u \in (DOMAIN convs) \cup {t} |-> Lookup(convs, u)]

\* line 99: self.conversations[thread_id].append(message)
append_message(convs, t, msg) ==
    [u \in (DOMAIN convs) \cup {t} |-> IF u = t THEN Append(Lookup(convs, t), msg) ELSE convs[u]]

\* line 102: len(self.conversations[thread_id]) > self.max_history
over_limit(convs, maxh, t) == Len(Lookup(convs, t)) > maxh

\* line 103: list.pop(0) raises IndexError on an empty list
pop_raises(convs, t) == Lookup(convs, t) = <<>>

\* line 103: self.conversations[thread_id].pop(0)
pop_oldest(convs, t) ==
    [u \in (DOMAIN convs) \cup {t} |->
        IF u = t /\ Lookup(convs, t) # <<>> THEN Tail(convs[t]) ELSE Lookup(convs, u)]

\* lines 93-99: caller a enters add_message and appends
CallAppend(a, t, role, content) ==
    /\ callers[a].pc = "Idle"
    /\ store_calls < MaxAppends
    /\ conversations' = append_message(conversations, t, Message(role, content, clock))
    /\ clock' = clock + 1
    /\ appended' = [appended EXCEPT ![t] = Append(@, Message(role, content, clock))]
    /\ store_calls' = store_calls + 1
    /\ callers' = [callers EXCEPT ![a] = [pc |-> "Appended", thread_id |-> t]]
    /\ UNCHANGED <<max_history, history_result, turnVars, history_thread, cturn, fmt>>

\* line 102: caller a evaluates the test; when it is false the call returns
CallTest(a) ==
    /\ callers[a].pc = "Appended"
    /\ conversations' = getitem_store(conversations, callers[a].thread_id)
    /\ callers' = [callers EXCEPT ![a] =
                      IF over_limit(conversations, max_history, callers[a].thread_id)
                      THEN [@ EXCEPT !.pc = "Trimming"]
                      ELSE CallerIdle]
    /\ UNCHANGED <<max_history, clock, appended, history_result, store_calls, turnVars,
                   history_thread, cturn, fmt>>

\* line 103: caller a pops the oldest message and returns, or the pop raises
CallPop(a) ==
    /\ callers[a].pc = "Trimming"
    /\ conversations' = pop_oldest(conversations, callers[a].thread_id)
    /\ callers' = [callers EXCEPT ![a] =
                      IF pop_raises(conversations, callers[a].thread_id)
                      THEN [@ EXCEPT !.pc = "Raised"]
                      ELSE CallerIdle]
    /\ UNCHANGED <<max_history, clock, appended, history_result, store_calls, turnVars,
                   history_thread, cturn, fmt>>

NextInterleaved ==
    \/ \E a \in Callers, t \in Threads, r \in Roles, c \in StoreContents : CallAppend(a, t, r, c)
    \/ \E a \in Callers : CallTest(a)
    \/ \E a \in Callers : CallPop(a)
    \/ \E t \in Threads : ClearHistory(t)

SpecInterleaved == InitStore /\ [][NextInterleaved]_vars

\* ================================================================== claims
Min(a, b) == IF a < b THEN a ELSE b

LastN(s, n) == SubSeq(s, Len(s) - n + 1, Len(s))

Last(s) == s[Len(s)]

Range(s) == {s[i] : i \in DOMAIN s}

IsStreamChunk(e) == e.op = "stream_chunk"
IsHandlerCall(e) == e.op = "generate_image_with_dalle"
IsSendError(e) == e.op = "send_error"
IsAssistantAppend(e) == e.op = "add_message" /\ e.role = "assistant"

\* the texts sent with stream_chunk so far, concatenated in emission order
RECURSIVE StreamedText(_)
StreamedText(tr) ==
    IF tr = <<>> THEN <<>>
    ELSE IF IsStreamChunk(Head(tr)) THEN Head(tr).text \o StreamedText(Tail(tr))
         ELSE StreamedText(Tail(tr))

\* C1: every thread's stored history has length <= max_history, whatever
\* add_message, get_history and clear_history calls were made.
C1_HistoryBounded ==
    \A t \in DOMAIN conversations : Len(conversations[t]) <= max_history

C1_Witness ==
    \E t \in DOMAIN conversations :
        /\ max_history >= 1
        /\ Len(appended[t]) > max_history
        /\ Len(conversations[t]) = max_history

\* C2: after n add_message calls on a thread since its creation or last clear,
\* get_history returns exactly the last min(n, max_history) appended messages,
\* roles and contents included, in arrival order.
C2_HistoryIsMostRecent ==
    \A t \in Threads :
        get_history(conversations, t)
            = LastN(appended[t], Min(Len(appended[t]), max_history))

C2_Witness ==
    \E t \in Threads :
        /\ max_history = 2
        /\ Len(appended[t]) = 3
        /\ history_result = <<appended[t][2], appended[t][3]>>
        /\ appended[t][1].content # appended[t][3].content

\* C3: a turn that fails (missing credential, provider call or stream failure,
\* accumulation failure) has emitted exactly one send_error and has appended no
\* assistant message: the last message it stored, if any, is the user's.
C3_FailedTurnOneErrorNoAssistant ==
    pc = "Failed" =>
        /\ Len(SelectSeq(trace, IsSendError)) = 1
        /\ Len(SelectSeq(trace, IsAssistantAppend)) = 0
        /\ trace[1].op = "add_message" =>
              /\ Last(appended[data.thread_id]).role = "user"
              /\ Last(appended[data.thread_id]).content = data.message
              /\ Last(conversations[data.thread_id]).role = "user"

C3_Witness ==
    /\ pc = "Failed"
    /\ full_response # <<>>
    /\ function_calls # <<>>
    /\ Last(trace).op = "send_error"

\* C4: at Finalized the assistant message appended to the store carries the full
\* reply text passed to complete_response, which is everything streamed (reply
\* chunks, then function results), and the append precedes the final response.
C4_StoredReplyIsEmittedReply ==
    pc = "Finalized" =>
        LET n == Len(trace)
        IN /\ n >= 2
           /\ trace[n].op = "complete_response"
           /\ IsAssistantAppend(trace[n - 1])
           /\ trace[n - 1].text = trace[n].text
           /\ trace[n].text = StreamedText(trace)
           /\ Len(SelectSeq(trace, IsAssistantAppend)) = 1
           /\ Last(appended[data.thread_id]).role = "assistant"
           /\ Last(appended[data.thread_id]).content = trace[n].text
           /\ Last(conversations[data.thread_id]).content = trace[n].text

C4_Witness ==
    /\ pc = "Finalized"
    /\ Len(full_response) >= 2
    /\ full_response[1][1] = "content"
    /\ Last(full_response)[1] = "image_result"
    /\ Len(conversations[data.thread_id]) = max_history

\* the URLs returned by the handler calls of this turn, in dispatch order
ReturnedUrl(e) == IsHandlerCall(e) /\ e.file_url # "fail"

\* C5: when two or more dispatched calls each return an attachment URL, the URL
\* emitted with the final response is the one returned by the first of them.
C5_FirstAttachmentWins ==
    (pc = "Finalized" /\ Len(SelectSeq(trace, ReturnedUrl)) >= 2) =>
        Last(trace).file_url = SelectSeq(trace, ReturnedUrl)[1].file_url

Dispatchable(call) == call.name = "generate_image" /\ JsonLoads(call.arguments) = "object"

\* C6: when the handler of one call fails, that call contributes a textual error
\* to the reply, every call is still dispatched and every successful handler
\* call contributes its image result, and the turn ends Finalized, not Failed.
C6_HandlerFailureIsolated ==
    (\E i \in DOMAIN trace : IsHandlerCall(trace[i]) /\ trace[i].file_url = "fail") =>
        /\ pc # "Failed"
        /\ \A i \in DOMAIN trace :
              IsHandlerCall(trace[i]) =>
                  /\ i < Len(trace)
                  /\ IsStreamChunk(trace[i + 1])
                  /\ trace[i + 1].text =
                        IF trace[i].file_url = "fail"
                        THEN FunctionError("dalle")
                        ELSE ImageResult(trace[i].file_url)
                  /\ trace[i + 1].text[1] \in Range(full_response)
        /\ pc = "Finalized" =>
              /\ next_call = Len(function_calls) + 1
              /\ Len(SelectSeq(trace, IsHandlerCall))
                    = Len(SelectSeq(function_calls, Dispatchable))
              /\ Last(trace).op = "complete_response"
              /\ Last(trace).text = full_response

C6_Witness ==
    /\ pc = "Finalized"
    /\ Len(function_calls) = 2
    /\ FunctionError("dalle")[1] \in Range(full_response)
    /\ \E j \in DOMAIN full_response : full_response[j][1] = "image_result"
    /\ trace[Len(trace) - 2].file_url # "fail"

UnknownFunctionText(name) == <<"function_error", "Unknown function: " \o name>>

\* C7: a completed call (valid arguments) whose name is not a registered
\* function adds a textual unknown-function result to the reply, and does not
\* fail the turn.
C7_UnknownFunctionReported ==
    pc = "Finalized" =>
        \A i \in DOMAIN function_calls :
            (function_calls[i].name # "generate_image"
             /\ JsonLoads(function_calls[i].arguments) = "object") =>
                UnknownFunctionText(function_calls[i].name) \in Range(full_response)

IsArgumentError(piece) == piece[1] \in {"function_execution_error", "function_error"}
Malformed(call) == JsonLoads(call.arguments) = "error"

\* C8: at the end of the turn the reply holds one textual error per accumulated
\* call whose argument buffer is not valid JSON, whatever the call's name.
C8_MalformedArgumentsReported ==
    pc = "Finalized" =>
        \A i \in DOMAIN function_calls :
            Malformed(function_calls[i]) =>
                Len(SelectSeq(full_response, IsArgumentError))
                    >= Len(SelectSeq(SubSeq(function_calls, 1, i), Malformed))

AccumulationFailed ==
    \E i \in DOMAIN trace :
        trace[i] = SendErrorEvent("Error processing message: IndexError")

StreamEnded == pc \in {"FunctionsPending", "Finalized"}

\* the argument fragments tagged with index i, concatenated in arrival order
RECURSIVE ArgsOf(_, _)
ArgsOf(frags, i) ==
    IF frags = <<>> THEN <<>>
    ELSE (IF Head(frags).index = i THEN Head(frags).arguments ELSE <<>>)
         \o ArgsOf(Tail(frags), i)

FirstOf(frags, i) ==
    frags[CHOOSE j \in DOMAIN frags :
            /\ frags[j].index = i
            /\ \A k \in 1..(j - 1) : frags[k].index # i]

IndicesOf(frags) == {frags[j].index : j \in DOMAIN frags}

\* C9: when a fragment for index 1 carrying argument text arrives before any
\* fragment for index 0, accumulation does not fail the turn, and once the
\* stream has ended the call for index 1 is present with its name and arguments.
C9_GapInIndicesTolerated ==
    (/\ received # <<>>
     /\ received[1].index = 1
     /\ received[1].arguments # <<>>) =>
        /\ ~AccumulationFailed
        /\ StreamEnded =>
              \E c \in DOMAIN function_calls :
                  /\ function_calls[c].name = FirstOf(received, 1).name
                  /\ function_calls[c].arguments = ArgsOf(received, 1)

\* call indices first appear in the order 0, 1, 2, ... without gaps
InOrder(frags) ==
    \A j \in DOMAIN frags :
        LET seen == {frags[k].index : k \in 1..(j - 1)}
        IN frags[j].index \in seen \/ frags[j].index = Cardinality(seen)

\* C10: when call indices first appear in the order 0, 1, 2, ..., the stream is
\* accumulated to its end and then call i holds the concatenation, in arrival
\* order, of the argument fragments tagged i, with the id and name carried by the
\* first fragment for index i.
C10_BuffersArePerIndexConcatenation ==
    InOrder(received) =>
        /\ ~AccumulationFailed
        /\ StreamEnded =>
              \A i \in IndicesOf(received) :
                  /\ i + 1 <= Len(function_calls)
                  /\ function_calls[i + 1].arguments = ArgsOf(received, i)
                  /\ function_calls[i + 1].id = FirstOf(received, i).id
                  /\ function_calls[i + 1].name = FirstOf(received, i).name

CredentialError == SendErrorEvent("OpenAI API key not found in variables")

\* the turn in progress was rejected for a missing credential
CredentialMissing == trace # <<>> /\ trace[1] = CredentialError

\* C11: a turn whose credential is missing emits exactly one error message and
\* nothing else (no provider stream is opened, no chunk, no final response), and
\* it has ended.
C11_MissingCredentialOnlyError ==
    CredentialMissing =>
        /\ trace = <<CredentialError>>
        /\ pc = "Failed"
        /\ ~ENABLED (OpenStream \/ StreamEnd \/ Finalize
                     \/ \E chunk \in Chunks(chunks_seen + 1) : StreamChunk(chunk))

C11_Witness ==
    /\ CredentialMissing
    /\ turns = 2
    /\ data.thread_id \in DOMAIN conversations

FatalErrors ==
    {CredentialError,
     SendErrorEvent("Error processing message: upstream")}

\* C12: a turn ends in Failed only for a missing credential or a failure of the
\* provider call or stream; tool-call fragments, malformed arguments and handler
\* failures never end a turn in Failed.
C12_OnlyCredentialAndUpstreamAreFatal ==
    pc = "Failed" => Last(trace) \in FatalErrors

IsTerminalEmission(e) == e.op \in {"complete_response", "send_error"}

\* C13: a turn that has ended has made exactly one terminal emission, a
\* complete_response when Finalized and a send_error when Failed, and nothing
\* after it; a turn that has not ended has made none, and can always go on
\* (end of stream, next dispatch, finalisation) without the provider's help.
C13_ExactlyOneTerminalEmission ==
    LET terminals == SelectSeq(trace, IsTerminalEmission)
    IN /\ pc \in Terminal =>
             /\ Len(terminals) = 1
             /\ IsTerminalEmission(Last(trace))
             /\ (pc = "Finalized") = (Last(trace).op = "complete_response")
             /\ (pc = "Failed") = (Last(trace).op = "send_error")
       /\ pc \notin Terminal => Len(terminals) = 0
       /\ pc = "PromptBuilt" => ENABLED (OpenStream \/ OpenStreamFails)
       /\ pc = "Streaming" => ENABLED (StreamEnd \/ StreamFails)
       /\ pc = "FunctionsPending" =>
             ENABLED (Finalize \/ \E outcome \in HandlerOutcomes : DispatchCall(outcome))

C13_Witness ==
    /\ pc = "Finalized"
    /\ Len(SelectSeq(trace, IsStreamChunk)) = 3
    /\ Len(SelectSeq(trace, IsHandlerCall)) = 2
    /\ Last(trace).op = "complete_response"

\* what a stored history holds, timestamps aside
RoleAndContent(hist) ==
    [i \in 1..Len(hist) |-> [role |-> hist[i].role, content |-> hist[i].content]]

Reply(p) == [role |-> "assistant", content |-> cturn[p].full_response]
Inbound(p) == [role |-> "user", content |-> UserText(p)]

\* C14: turns on one thread are not mutually excluded: whatever the other turns
\* are doing, a turn that has not started can start, and a turn that started
\* while another was in flight on its thread has read a history without that
\* turn's reply.
C14_TurnsNotExcluded ==
    \A p \in ConcurrentTurns :
        /\ cturn[p].pc = "Idle" => \A t \in Threads : ENABLED CBeginTurn(p, t)
        /\ \A q \in ConcurrentTurns \ {p} :
              (/\ cturn[p].pc = "Streaming"
               /\ cturn[q].pc = "Streaming"
               /\ cturn[p].thread_id = cturn[q].thread_id
               /\ Inbound(q) \in Range(RoleAndContent(cturn[p].thread_history)))
              => \A m \in Range(cturn[p].thread_history) : m.role = "user"

\* turn 2 started after turn 1 and read no reply; the stored history is
\* user1, user2, assistant2, assistant1
C14_Witness ==
    /\ cturn[1].pc = "Finalized"
    /\ cturn[2].pc = "Finalized"
    /\ cturn[1].thread_id = "t1"
    /\ cturn[2].thread_id = "t1"
    /\ cturn[1].full_response # <<>>
    /\ RoleAndContent(cturn[2].thread_history) = <<Inbound(1), Inbound(2)>>
    /\ RoleAndContent(get_history(conversations, "t1"))
          = <<Inbound(1), Inbound(2), Reply(2), Reply(1)>>

\* C15: clear_history(t) never raises; after it get_history(t) is empty and t is
\* not among get_all_threads(), whether or not t existed; on an absent thread it
\* leaves the store as it was; clearing twice is clearing once.
C15_ClearHistoryRemovesThread ==
    /\ [](\A t \in Threads : ENABLED ClearHistory(t))
    /\ [][\A t \in Threads :
            ClearHistory(t) =>
                /\ get_history(conversations', t) = <<>>
                /\ t \notin get_all_threads(conversations')
                /\ \A u \in Threads \ {t} :
                      get_history(conversations', u) = get_history(conversations, u)
                /\ get_all_threads(conversations') = get_all_threads(conversations) \ {t}
                /\ (t \notin get_all_threads(conversations) => conversations' = conversations)
                /\ clear_history(conversations', t) = conversations']_vars

\* a thread that received a message is gone, the other thread is intact
C15_Witness ==
    \E t, u \in Threads :
        /\ t # u
        /\ store_calls = 2
        /\ t \notin get_all_threads(conversations)
        /\ u \in get_all_threads(conversations)
        /\ Len(appended[u]) = 1
        /\ Len(get_history(conversations, u)) = 1

\* C16: get_history(t) leaves the store as it was, for a known and for an
\* unknown thread: get_all_threads() and get_thread_count() are the same before
\* and after, and an unknown thread yields the empty history.
C16_GetHistoryHasNoSideEffect ==
    [][\A t \in Threads :
          GetHistory(t) =>
              /\ conversations' = conversations
              /\ get_all_threads(conversations') = get_all_threads(conversations)
              /\ get_thread_count(conversations') = get_thread_count(conversations)
              /\ (t \in get_all_threads(conversations) => history_result' = conversations[t])
              /\ (t \notin get_all_threads(conversations) => history_result' = <<>>)]_vars

\* an unknown thread was queried while another thread held messages
C16_Witness ==
    /\ history_thread \in Threads
    /\ history_thread \notin get_all_threads(conversations)
    /\ history_result = <<>>
    /\ get_thread_count(conversations) = 1
    /\ \E u \in Threads : Len(get_history(conversations, u)) = 2

\* the history part of the message list built for the provider
PromptHistory == SubSeq(messages, 2, Len(messages) - 1)

\* C17: the history used to build the prompt was read after the inbound user
\* message was stored: it ends with that message and is no longer than
\* max_history.
C17_PromptHistoryEndsWithInbound ==
    pc = "PromptBuilt" =>
        /\ trace = <<AddMessageEvent("user", data.message)>>
        /\ Len(PromptHistory) >= 1
        /\ Len(PromptHistory) <= max_history
        /\ Last(PromptHistory) = [role |-> "user", content |-> data.message]
        /\ PromptHistory = RoleAndContent(get_history(conversations, data.thread_id))

\* second turn: the history is full and ends with the second inbound message
C17_Witness ==
    /\ pc = "PromptBuilt"
    /\ turns = 2
    /\ Len(PromptHistory) = max_history
    /\ PromptHistory[1].role = "assistant"

\* C18: format_messages_for_openai returns len(history) + 2 entries: the system
\* entry with the given prompt, the history entries in order reduced to role and
\* content, the user entry with the current message; the history it was given
\* is as it was.
C18_FormatMessagesShape ==
    fmt.stage = "done" =>
        /\ Len(fmt.messages) = Len(fmt.conversation_history) + 2
        /\ fmt.messages[1] = [role |-> "system", content |-> fmt.system_prompt]
        /\ \A i \in 1..Len(fmt.conversation_history) :
              /\ DOMAIN fmt.messages[i + 1] = {"role", "content"}
              /\ fmt.messages[i + 1].role = fmt.conversation_history[i].role
              /\ fmt.messages[i + 1].content = fmt.conversation_history[i].content
        /\ Last(fmt.messages) = [role |-> "user", content |-> fmt.current_message]
        /\ fmt.history_after = fmt.conversation_history

C18_Witness ==
    /\ fmt.stage = "done"
    /\ Len(fmt.conversation_history) = 2
    /\ fmt.conversation_history[1].role = "assistant"
    /\ fmt.conversation_history[2].role = "user"
    /\ fmt.conversation_history[1].content # fmt.conversation_history[2].content

\* an argument that was not given, or given empty
Absent(s) == s = None \/ s = ""

\* C19: format_system_prompt returns the default prompt when no base message is
\* given and the base message otherwise, followed, exactly when a project
\* context is given, by a blank line and the labelled project context.
C19_SystemPromptShape ==
    fmt.stage \in {"prompt", "done"} =>
        LET base == IF Absent(fmt.system_message)
                    THEN <<"text", "You are a helpful AI assistant.">>
                    ELSE <<"text", fmt.system_message>>
        IN /\ fmt.system_prompt[1] = base
           /\ Absent(fmt.project_system_message) => fmt.system_prompt = <<base>>
           /\ ~Absent(fmt.project_system_message) =>
                 fmt.system_prompt = <<base, <<"text", "\n\nProject Context: ">>,
                                       <<"text", fmt.project_system_message>>>>

C19_Witness ==
    /\ fmt.stage = "prompt"
    /\ fmt.system_message = None
    /\ fmt.project_system_message = "proj"
    /\ Len(fmt.system_prompt) = 3

\* C20: when the PDF cannot be fetched or read, the message list for the
\* provider is the one built without an attachment (the last entry keeps the
\* original text), nothing is sent to the output channel, and the turn goes on
\* to the provider call.
C20_PdfFailureLeavesPromptAlone ==
    (pc = "PromptBuilt" /\ attachment = "pdf_unreadable") =>
        /\ messages = format_messages_for_openai(messages[1].content,
                                                 get_history(conversations, data.thread_id),
                                                 data.message)
        /\ messages[1].content \in
              {format_system_prompt(s, j) : s \in SystemMessages, j \in ProjectMessages}
        /\ Last(messages) = [role |-> "user", content |-> data.message]
        /\ trace = <<AddMessageEvent("user", data.message)>>
        /\ ENABLED OpenStream

C20_Witness ==
    /\ pc = "PromptBuilt"
    /\ attachment = "pdf_unreadable"
    /\ turns = 2
    /\ Len(messages) = 4

\* C21: every thread id that get_all_threads returns has at least one stored
\* message, and get_thread_count is the number of ids returned.
C21_ListedThreadsHaveMessages ==
    /\ \A t \in get_all_threads(conversations) : Len(get_history(conversations, t)) >= 1
    /\ get_thread_count(conversations) = Cardinality(get_all_threads(conversations))

PieceKinds(text) == {text[i][1] : i \in DOMAIN text}

\* C22: at every point of a turn the texts sent with stream_chunk, concatenated
\* in emission order, are the reply text accumulated so far.
C22_StreamedTextIsFullResponse == StreamedText(trace) = full_response

\* reply text, an image result and a function error have all been forwarded
C22_Witness ==
    /\ pc = "FunctionsPending"
    /\ next_call = 3
    /\ {"content", "image_result", "function_execution_error"} \subseteq PieceKinds(full_response)

\* a forwarded chunk holds either one piece of reply text or one function output
IsContentChunk(e) == IsStreamChunk(e) /\ e.text # <<>> /\ e.text[1][1] = "content"
IsFunctionOutput(e) == IsHandlerCall(e) \/ (IsStreamChunk(e) /\ ~IsContentChunk(e))

\* positions of the calls visited so far that reach the handler
DispatchedPositions == {i \in 1..(next_call - 1) : Dispatchable(function_calls[i])}

\* the k-th smallest element of a set of numbers
Kth(S, k) == CHOOSE i \in S : Cardinality({j \in S : j < i}) = k - 1

\* C23: no call is dispatched before the stream has ended; afterwards the
\* accumulated calls are dispatched once each, in accumulation order; every
\* function output comes after every reply-text chunk and before the final
\* response.
C23_DispatchAfterStreamInOrder ==
    LET handled == SelectSeq(trace, IsHandlerCall)
    IN /\ pc \in {"Idle", "PromptBuilt", "Streaming", "Failed"} =>
             /\ next_call = 1
             /\ \A i \in DOMAIN trace : ~IsFunctionOutput(trace[i])
       /\ pc \in {"FunctionsPending", "Finalized"} =>
             /\ Len(handled) = Cardinality(DispatchedPositions)
             /\ \A k \in DOMAIN handled :
                   handled[k].file_url \in {"fail", ImageUrl(Kth(DispatchedPositions, k))}
       /\ pc = "Finalized" => next_call = Len(function_calls) + 1
       /\ LET outputs == {i \in DOMAIN trace : IsFunctionOutput(trace[i])}
              replies == {i \in DOMAIN trace : IsContentChunk(trace[i])}
              finals == {i \in DOMAIN trace : trace[i].op = "complete_response"}
          IN \A i \in outputs :
                /\ \A j \in replies : j < i
                /\ \A j \in finals : i < j

\* two calls were dispatched after a reply-text chunk, the second one first failing
C23_Witness ==
    /\ pc = "Finalized"
    /\ Len(SelectSeq(trace, IsContentChunk)) = 1
    /\ Len(SelectSeq(trace, IsHandlerCall)) = 2
    /\ SelectSeq(trace, IsHandlerCall)[1].file_url = "fail"
    /\ SelectSeq(trace, IsHandlerCall)[2].file_url = ImageUrl(2)

\* C24: for the same accumulated tool calls and the same handler outcomes, the
\* inline dispatch loop of process_message and process_function_calls yield the
\* same reply-text contribution and the same attachment URL.
C24_InlineDispatchAgreesWithHandlerModule ==
    (pc = "FunctionsPending" /\ next_call = 1) =>
        \A outcomes \in OutcomeLists(function_calls) :
            inline_dispatch(function_calls, outcomes)
                = process_function_calls(function_calls, outcomes)

\* the thread of the turn in progress
TurnHistory == get_history(conversations, data.thread_id)

\* the message list as format_messages_for_openai built it, before any attachment
PlainMessages == format_messages_for_openai(messages[1].content, TurnHistory, data.message)

\* what the store holds of a thread is what was appended to it since its
\* creation, untouched, less what was evicted
StoredAsAppended(t) ==
    get_history(conversations, t)
        = LastN(appended[t], Min(Len(appended[t]), max_history))

\* C25: an attachment changes only the last entry of the message list for the
\* provider; the user message stored for the thread keeps the inbound text, and
\* no stored message is modified by a turn.
C25_AttachmentTouchesOnlyLastEntry ==
    /\ \A t \in Threads : StoredAsAppended(t)
    /\ pc = "PromptBuilt" =>
          /\ Len(messages) = Len(PlainMessages)
          /\ \A i \in 1..(Len(messages) - 1) : messages[i] = PlainMessages[i]
          /\ Last(messages).role = "user"
          /\ Last(TurnHistory).role = "user"
          /\ Last(TurnHistory).content = data.message
          /\ Last(appended[data.thread_id]).content = data.message
          /\ (attachment = "pdf") = (Last(messages).content = data.message \o PdfText)
          /\ (attachment = "image") = (Last(messages).content = ImageParts(data.message))
          /\ (attachment \in {None, "pdf_unreadable"}) = (Last(messages) = Last(PlainMessages))

\* a second turn with a readable PDF: the history copy of the inbound message
\* and the stored one are plain, the last entry carries the PDF text
C25_Witness ==
    /\ pc = "PromptBuilt"
    /\ attachment = "pdf"
    /\ turns = 2
    /\ Len(messages) = 4
    /\ messages[3].content = data.message
    /\ Last(messages).content # data.message

LatestUsage == IF usages = <<>> THEN None ELSE Last(usages)

\* C26: the usage metadata sent with the final response is the value of the last
\* chunk that carried usage metadata, and is absent when no chunk carried any.
C26_FinalUsageIsLatest ==
    /\ pc \in {"Streaming", "FunctionsPending", "Finalized"} => usage_info = LatestUsage
    /\ pc = "Finalized" =>
          /\ Last(trace).op = "complete_response"
          /\ Last(trace).usage = LatestUsage

\* two chunks carried usage, a later one did not; the second value was sent
C26_Witness ==
    /\ pc = "Finalized"
    /\ chunks_seen = 3
    /\ usages = <<UsageValue(1), UsageValue(2)>>
    /\ Last(trace).usage = UsageValue(2)

\* C27: with max_history >= 1 and no attachment, the message list for the
\* provider ends with the inbound user message twice in a row: as the last
\* history entry and as the current-message entry.
C27_InboundMessageTwice ==
    (pc = "PromptBuilt" /\ attachment = None /\ max_history >= 1) =>
        LET n == Len(messages)
        IN /\ n >= 3
           /\ messages[n] = [role |-> "user", content |-> data.message]
           /\ messages[n - 1] = messages[n]
           /\ n = Len(TurnHistory) + 2

C27_Witness ==
    /\ pc = "PromptBuilt"
    /\ attachment = None
    /\ turns = 1
    /\ Len(messages) = 3
    /\ messages[2] = messages[3]

RolesOf(hist) == [i \in 1..Len(hist) |-> hist[i].role]

C29_MissingCredentialLeavesStore ==
    CredentialMissing =>
        /\ \A i \in DOMAIN appended[data.thread_id] :
              appended[data.thread_id][i].content # data.message
        /\ \A i \in DOMAIN TurnHistory : TurnHistory[i].content # data.message
        /\ \A t \in Threads : t \in get_all_threads(conversations) => appended[t] # <<>>

\* the very first turn is rejected: the store is still empty
C29_Witness ==
    /\ CredentialMissing
    /\ turns = 1
    /\ conversations = <<>>
    /\ clock = 1

\* C30: add_message(t, ...) and clear_history(t) leave the history of every
\* other thread, and whether it exists, as they were, also when the append to t
\* evicts a message.
C30_OtherThreadsUntouched ==
    [][\A t \in Threads :
          (ClearHistory(t) \/ \E r \in Roles, c \in StoreContents : AddMessage(t, r, c)) =>
              \A u \in Threads \ {t} :
                  /\ get_history(conversations', u) = get_history(conversations, u)
                  /\ (u \in get_all_threads(conversations'))
                        = (u \in get_all_threads(conversations))]_vars

\* t1 overflowed and lost its oldest message after t2 had got its one message
C30_Witness ==
    /\ max_history = 1
    /\ Len(appended["t1"]) = 2
    /\ Len(get_history(conversations, "t1")) = 1
    /\ Len(appended["t2"]) = 1
    /\ get_history(conversations, "t2") = appended["t2"]
    /\ appended["t2"][1].timestamp < appended["t1"][2].timestamp

\* C31: when the statements of add_message are interleaved between concurrent
\* callers, with clear_history running alongside, no add_message call raises,
\* and whenever no add_message call is in progress every thread's history holds
\* at most max_history messages.
InProgress(a) == callers[a].pc \in {"Appended", "Trimming"}

NoCallRaises == \A a \in Callers : callers[a].pc # "Raised"

QuiescentBounded ==
    (\A a \in Callers : ~InProgress(a))
        => \A t \in DOMAIN conversations : Len(conversations[t]) <= max_history

C31_InterleavedAddMessageSafe == NoCallRaises /\ QuiescentBounded

====
